---------------------------- MODULE Spec2Model ----------------------------
(***************************************************************************)
(* Model of itmm/assert-problems: strlen over a String_Literal view.       *)
(*                                                                         *)
(* src/strlen.cpp     strlen(const String_Literal&): copy the view into a  *)
(*                    cursor, advance while the dereferenced character is  *)
(*                    non-zero, return cur.ptr() - str.ptr() as a size_t.  *)
(* src/t_strlen.cpp   the callers: strlen(String_Literal { literal }) and  *)
(*                    the try/catch around String_Literal { nullptr }.     *)
(*                                                                         *)
(* string-literal.h (the String_Literal class) and solid/require.h are not *)
(* part of the available sources; the constructor's null check and the     *)
(* members operator*, operator++ and ptr() follow the written description  *)
(* of the type.                                                            *)
(*                                                                         *)
(* Memory is a sequence of characters at addresses 1..Len(mem); address 0  *)
(* is the null pointer. A read outside 1..Len(mem) is undefined behaviour: *)
(* it may crash or yield any character.                                    *)
(***************************************************************************)
EXTENDS Integers, Sequences, FiniteSets

\* ------------------------------------------------------------------ bounds

\* Longest character storage the caller owns.
MaxLen == 4

\* How often the caller calls strlen on the view it constructed.
MaxCalls == 2

\* How far beyond the storage a runaway scan is followed.
MaxOverrun == 1

\* ------------------------------------------------------- program constants

\* nullptr
NULL == 0

\* The terminator, '\0'.
NUL == 0

\* size_t arithmetic is modulo 2^N; N is at least 16, the width used here.
SIZE_MODULUS == 65536

\* Character values: the terminator and 'a', 'b', 'c'.
Chars == {NUL, 97, 98, 99}

\* Character storages the caller may own (a literal's storage ends in NUL,
\* a character array need not).
Storages == UNION {[1..n -> Chars] : n \in 1..MaxLen}

VARIABLES
    mem,            \* the caller's character storage
    arg,            \* the raw pointer handed to String_Literal { ... }
    view,           \* the caller's String_Literal (str in strlen)
    cur,            \* strlen's local cursor
    pc,             \* control position
    err,            \* the exception in flight or caught
    got_exception,  \* test_null_strlen's flag
    results,        \* the values strlen returned to the caller, in order
    advances,       \* number of ++cur of the running call
    reads,          \* addresses dereferenced by the running call
    ub              \* an out-of-storage read has happened

vars == <<mem, arg, view, cur, pc, err, got_exception, results, advances,
          reads, ub>>

\* ------------------------------------------------------------ String_Literal

\* No String_Literal value exists (before construction, or after a throw).
NoValue == [exists |-> FALSE, ptr |-> NULL]

\* The value the constructor produces for a pointer it accepts.
Wrap(p) == [exists |-> TRUE, ptr |-> p]

\* String_Literal::ptr()
Ptr(v) == v.ptr

\* The outcomes of String_Literal::operator*: the stored character, or, for
\* an address outside the storage, any character.
Deref(m, v) == IF Ptr(v) \in DOMAIN m THEN {m[Ptr(v)]} ELSE Chars

\* String_Literal::operator++
Advance(v) == [v EXCEPT !.ptr = @ + 1]

\* Mutant: the constructor checks nothing.
NullCheck_Missing(p) == TRUE

\* The constructor's precondition: require(ptr != nullptr).
NullCheck(p) == p # NULL

\* ptrdiff_t to size_t.
ToSizeT(d) == d % SIZE_MODULUS

\* Mutant: the operands of the subtraction swapped.
Distance_Swapped(c, s) == ToSizeT(Ptr(s) - Ptr(c))

\* return cur.ptr() - str.ptr();
Distance(c, s) == ToSizeT(Ptr(c) - Ptr(s))

\* The loop condition of for (; *cur; ++cur): continue on a non-zero character.
LoopContinues(c) == c # NUL

\* ------------------------------------------------------------------- Init

Init ==
    /\ mem \in Storages
    /\ arg \in {NULL} \cup DOMAIN mem
    /\ view = NoValue
    /\ cur = NoValue
    /\ pc = "start"
    /\ err = "none"
    /\ got_exception = FALSE
    /\ results = <<>>
    /\ advances = 0
    /\ reads = {}
    /\ ub = FALSE

\* ---------------------------------------------------------------- actions

\* Mutant: the constructor also rejects a sequence that starts with the
\* terminator.
Construct_RejectsEmpty ==
    /\ pc = "start"
    /\ IF NullCheck(arg) /\ mem[arg] # NUL
         THEN /\ view' = Wrap(arg)
              /\ pc' = "constructed"
              /\ err' = err
         ELSE /\ view' = NoValue
              /\ pc' = "throwing"
              /\ err' = "NullReference"
    /\ UNCHANGED <<mem, arg, cur, got_exception, results, advances, reads, ub>>

\* String_Literal { arg }: throws on a null pointer before a value exists,
\* otherwise wraps the pointer.
Construct ==
    /\ pc = "start"
    /\ IF NullCheck(arg)
         THEN /\ view' = Wrap(arg)
              /\ pc' = "constructed"
              /\ err' = err
         ELSE /\ view' = NoValue
              /\ pc' = "throwing"
              /\ err' = "NullReference"
    /\ UNCHANGED <<mem, arg, cur, got_exception, results, advances, reads, ub>>

\* Mutant: the handler names another exception type, so the exception leaves
\* test_null_strlen uncaught.
Catch_WrongType ==
    /\ pc = "throwing"
    /\ err = "NullReference"
    /\ pc' = "terminated"
    /\ UNCHANGED <<mem, arg, view, cur, err, got_exception, results, advances,
                   reads, ub>>

\* catch (const solid::require::Error&) { got_exception = true; }
Catch ==
    /\ pc = "throwing"
    /\ err = "NullReference"
    /\ got_exception' = TRUE
    /\ pc' = "done"
    /\ UNCHANGED <<mem, arg, view, cur, err, results, advances, reads, ub>>

\* Mutant: a do-while scan, the cursor advanced before the first test.
StrlenEnter_AdvanceFirst ==
    /\ pc \in {"constructed", "returned"}
    /\ Len(results) < MaxCalls
    /\ cur' = view
    /\ advances' = 0
    /\ reads' = {}
    /\ pc' = "inc"
    /\ UNCHANGED <<mem, arg, view, err, got_exception, results, ub>>

\* strlen(str): auto cur { str };
StrlenEnter ==
    /\ pc \in {"constructed", "returned"}
    /\ Len(results) < MaxCalls
    /\ cur' = view
    /\ advances' = 0
    /\ reads' = {}
    /\ pc' = "test"
    /\ UNCHANGED <<mem, arg, view, err, got_exception, results, ub>>

\* Mutant: the loop condition dereferences str instead of cur.
LoopTest_DerefStr ==
    /\ pc = "test"
    /\ reads' = reads \cup {Ptr(view)}
    /\ ub' = (ub \/ Ptr(view) \notin DOMAIN mem)
    /\ \E c \in Deref(mem, view) :
         pc' = IF LoopContinues(c) THEN "inc" ELSE "ret"
    /\ UNCHANGED <<mem, arg, view, cur, err, got_exception, results, advances>>

\* for (; *cur; ...): the loop condition.
LoopTest ==
    /\ pc = "test"
    /\ reads' = reads \cup {Ptr(cur)}
    /\ ub' = (ub \/ Ptr(cur) \notin DOMAIN mem)
    /\ \E c \in Deref(mem, cur) :
         pc' = IF LoopContinues(c) THEN "inc" ELSE "ret"
    /\ UNCHANGED <<mem, arg, view, cur, err, got_exception, results, advances>>

\* An out-of-storage read may also end the program.
Crash ==
    /\ pc = "test"
    /\ Ptr(cur) \notin DOMAIN mem
    /\ ub' = TRUE
    /\ pc' = "crashed"
    /\ UNCHANGED <<mem, arg, view, cur, err, got_exception, results, advances,
                   reads>>

\* Mutant: the cursor advanced in the loop header and again in the body.
LoopAdvance_Twice ==
    /\ pc = "inc"
    /\ Ptr(cur) < Len(mem) + MaxOverrun
    /\ cur' = Advance(Advance(cur))
    /\ advances' = advances + 2
    /\ pc' = "test"
    /\ UNCHANGED <<mem, arg, view, err, got_exception, results, reads, ub>>

\* Mutant: the scan advances the caller's view instead of the cursor copy.
LoopAdvance_OnCaller ==
    /\ pc = "inc"
    /\ Ptr(view) < Len(mem) + MaxOverrun
    /\ view' = Advance(view)
    /\ advances' = advances + 1
    /\ pc' = "test"
    /\ UNCHANGED <<mem, arg, cur, err, got_exception, results, reads, ub>>

\* Mutant: the increment is missing from the loop.
LoopAdvance_Forgotten ==
    /\ pc = "inc"
    /\ pc' = "test"
    /\ UNCHANGED <<mem, arg, view, cur, err, got_exception, results, advances,
                   reads, ub>>

\* for (...; ++cur) { }
LoopAdvance ==
    /\ pc = "inc"
    /\ Ptr(cur) < Len(mem) + MaxOverrun
    /\ cur' = Advance(cur)
    /\ advances' = advances + 1
    /\ pc' = "test"
    /\ UNCHANGED <<mem, arg, view, err, got_exception, results, reads, ub>>

\* Mutant: the scan's final position is left in the caller's view.
StrlenReturn_WritesBack ==
    /\ pc = "ret"
    /\ results' = Append(results, Distance(cur, view))
    /\ view' = cur
    /\ pc' = "returned"
    /\ UNCHANGED <<mem, arg, cur, err, got_exception, advances, reads, ub>>

\* return cur.ptr() - str.ptr();
StrlenReturn ==
    /\ pc = "ret"
    /\ results' = Append(results, Distance(cur, view))
    /\ pc' = "returned"
    /\ UNCHANGED <<mem, arg, view, cur, err, got_exception, advances, reads, ub>>

\* The caller is finished with the view.
Finish ==
    /\ pc = "returned"
    /\ pc' = "done"
    /\ UNCHANGED <<mem, arg, view, cur, err, got_exception, results, advances,
                   reads, ub>>

Next ==
    \/ Construct
    \/ Catch
    \/ StrlenEnter
    \/ LoopTest
    \/ Crash
    \/ LoopAdvance
    \/ StrlenReturn
    \/ Finish

Spec == Init /\ [][Next]_vars

\* The program runs to completion: single-threaded, no suspension points.
FairSpec == Spec /\ WF_vars(Next)

\* ------------------------------------------------- reference definitions

\* The storage holds a terminator at or after address p.
HasTerm(m, p) == \E i \in p..Len(m) : m[i] = NUL

\* The address of the first terminator at or after p.
FirstTerm(m, p) ==
    CHOOSE i \in p..Len(m) : m[i] = NUL /\ \A j \in p..(i - 1) : m[j] # NUL

\* The number of advance operations that lead from p to the first address
\* whose character is the terminator.
RECURSIVE StepsToTerm(_, _)
StepsToTerm(m, p) == IF m[p] = NUL THEN 0 ELSE 1 + StepsToTerm(m, p + 1)

\* The caller holds a view over a terminated sequence.
Valid == view.exists /\ HasTerm(mem, Ptr(view))

\* Control is inside strlen.
InStrlen == pc \in {"test", "inc", "ret"}

\* Every value strlen has returned so far equals n.
AllResultsAre(n) == \A i \in 1..Len(results) : results[i] = n

\* ------------------------------------------------------------------ claims

\* C1: constructing a String_Literal from nullptr always raises
\* NullReference; the caller of strlen(String_Literal { nullptr }) catches the
\* failure and never receives a length.
C1_NullAlwaysRaises ==
    arg = NULL =>
        /\ pc \in {"start", "throwing", "done"}
        /\ pc # "start" => err = "NullReference"
        /\ pc = "done" => got_exception
        /\ results = <<>>

C1_Witness == arg = NULL /\ pc = "done" /\ got_exception /\ results = <<>>

\* C2: for every valid view over a terminated sequence, strlen returns the
\* number of advance steps from the start to the first terminator.
C2_LengthIsSteps ==
    Valid => AllResultsAre(StepsToTerm(mem, Ptr(view)))

C2_Witness ==
    /\ mem = <<97, 98, 99, NUL>>
    /\ arg = 1
    /\ results = <<3>>

\* C3: with non-zero characters stored after an embedded terminator, strlen
\* stops at the first terminator: it counts only the characters before it
\* and reads no address after it.
C3_StopsAtFirstTerminator ==
    (/\ Valid
     /\ \E j \in (FirstTerm(mem, Ptr(view)) + 1)..Len(mem) : mem[j] # NUL)
    => /\ \A a \in reads : Ptr(view) <= a /\ a <= FirstTerm(mem, Ptr(view))
       /\ AllResultsAre(FirstTerm(mem, Ptr(view)) - Ptr(view))

C3_Witness ==
    /\ mem = <<97, NUL, 98, NUL>>
    /\ arg = 1
    /\ results = <<1>>
    /\ reads = {1, 2}

\* C4: for a view whose first character is the terminator, strlen performs
\* no advance and returns 0.
C4_EmptyIsZero ==
    (view.exists /\ Ptr(view) \in DOMAIN mem /\ mem[Ptr(view)] = NUL)
    => /\ advances = 0
       /\ pc # "inc"
       /\ AllResultsAre(0)

C4_Witness ==
    /\ view.exists
    /\ mem[Ptr(view)] = NUL
    /\ results = <<0>>
    /\ advances = 0

\* C5: construction from a non-null pointer always succeeds, also when the
\* first character is the terminator; NullReference is raised if and only
\* if the pointer is null, and no other error is ever raised.
C5_RaisesIffNull ==
    /\ err \in {"none", "NullReference"}
    /\ err = "NullReference" <=> (arg = NULL /\ pc # "start")
    /\ (arg # NULL /\ pc # "start") => view = Wrap(arg)
    /\ got_exception => arg = NULL

C5_Witness ==
    /\ arg # NULL
    /\ mem[arg] = NUL
    /\ pc = "constructed"
    /\ view = Wrap(arg)
    /\ err = "none"

\* C6: calling strlen twice on the same view returns the same value both
\* times.
C6_SameResultTwice ==
    Valid => \A i, j \in 1..Len(results) : results[i] = results[j]

C6_Witness ==
    /\ Valid
    /\ Len(results) = 2
    /\ results[1] = 2
    /\ results[2] = 2

\* C7: strlen leaves the caller's view and the character storage unchanged;
\* only the local cursor is advanced.
C7_CallerUnchanged ==
    [][(pc \in {"constructed", "returned", "test", "inc", "ret"})
         => (view' = view /\ view = Wrap(arg) /\ mem' = mem)]_vars

C7_Witness ==
    /\ pc = "returned"
    /\ advances = 2
    /\ Ptr(cur) = Ptr(view) + 2
    /\ view = Wrap(arg)

\* C8: during a strlen call on a valid view the cursor stays between the
\* start and the first terminator, every character from the start up to the
\* cursor is non-zero, and the distance cursor - start is never negative.
C8_CursorWithinBounds ==
    (Valid /\ InStrlen)
    => /\ Ptr(view) <= Ptr(cur)
       /\ Ptr(cur) <= FirstTerm(mem, Ptr(view))
       /\ \A j \in Ptr(view)..(Ptr(cur) - 1) : mem[j] # NUL
       /\ Ptr(cur) - Ptr(view) >= 0
       /\ Distance(cur, view) = Ptr(cur) - Ptr(view)

C8_Witness ==
    /\ Valid
    /\ pc = "ret"
    /\ Ptr(cur) = FirstTerm(mem, Ptr(view))
    /\ Ptr(cur) - Ptr(view) = 3

\* C9: for every valid view over a sequence that contains a terminator,
\* strlen terminates, after exactly as many advances as there are characters
\* before the first terminator, without leaving the storage.
C9_Terminates ==
    /\ []((Valid /\ InStrlen) => <>(pc = "returned"))
    /\ []((Valid /\ pc \in {"ret", "returned"})
            => advances = FirstTerm(mem, Ptr(view)) - Ptr(view))
    /\ [](Valid => (~ub /\ pc # "crashed"))

C9_Witness ==
    /\ Valid
    /\ pc = "returned"
    /\ advances = 3
    /\ Len(results) = 1

\* C10: the null check precedes everything else: for a null pointer no view
\* ever exists, the scan is never entered and nothing is dereferenced or
\* advanced; every view that reaches strlen wraps a non-null pointer.
C10_NullCheckFirst ==
    /\ arg = NULL =>
         /\ ~view.exists
         /\ ~cur.exists
         /\ ~InStrlen
         /\ reads = {}
         /\ advances = 0
    /\ InStrlen => (view.exists /\ Ptr(view) # NULL /\ Ptr(cur) # NULL)
    /\ NULL \notin reads

C10_Witness ==
    /\ arg = NULL
    /\ pc = "throwing"
    /\ view = NoValue
    /\ reads = {}

==========================================================================
